---- MODULE Spec2Model ----
(***************************************************************************)
(* Pound text editor (src/pound/src/main.rs): the cursor/viewport/scroll   *)
(* engine, the renderer, the event dispatcher and the session loop of      *)
(* main, as one state machine.                                             *)
(*                                                                         *)
(* Rust's usize arithmetic panics on overflow when the build has overflow  *)
(* checks (the debug profile) and wraps when it has none (the release      *)
(* profile); the variable build holds which of the two the run is.         *)
(***************************************************************************)
EXTENDS Integers, Sequences, FiniteSets, TLC

VARIABLES
    build,              \* "debug" (overflow checks) or "release" (wrapping)
    pc,                 \* position of main
    raw_mode,           \* the terminal's raw-mode flag (process-wide)
    raw_log,            \* the raw-mode toggles performed, in order
    term_log,           \* the mode toggles and screen clears of main, in order
    clean_up,           \* the CleanUp value of main: "none", "live", "dropped"
    win_size,           \* Output.win_size: <<columns, rows>>
    cursor_controller,  \* Output.cursor_controller
    row_contents,       \* Output.editor_rows.row_contents
    content,            \* Output.editor_contents.content
    event,              \* the event read_event returned last
    signal              \* what process_event returned last

vars == <<build, pc, raw_mode, raw_log, term_log, clean_up, win_size, cursor_controller,
          row_contents, content, event, signal>>

----------------------------------------------------------------------------
(* Bounds of the model. *)

\* Terminal dimensions 0..MaxDim are delivered at startup and by resizes.
MaxDim == 2

\* Right presses are accepted while x < MaxX (x is unbounded in the code).
MaxX == 3

----------------------------------------------------------------------------
(* usize arithmetic. *)

\* usize is 64 bits wide on the usual targets. The model keeps the wrap-around
\* of the word with a narrower one, far above every counter the bounds allow
\* and a multiple of 2^16, so that `as u16` truncates as it does in the code.
UsizeMod == 2 ^ 20

U16Mod == 2 ^ 16

wrapping_add(a, b) == (a + b) % UsizeMod

wrapping_sub(a, b) == (a - b + UsizeMod) % UsizeMod

saturating_sub(a, b) == IF a >= b THEN a - b ELSE 0

min(a, b) == IF a <= b THEN a ELSE b

----------------------------------------------------------------------------
(* CursorController *)

CursorController_new(ws) ==
    [x |-> 0, y |-> 0,
     x_max |-> wrapping_sub(ws[1], 1),
     y_max |-> wrapping_sub(ws[2], 1),
     row_offset |-> 0, column_offset |-> 0]

\* win_size.0 - 1 or win_size.1 - 1 overflows
CursorController_new_overflows(ws) == ws[1] = 0 \/ ws[2] = 0

\* move_cursor with Up and Left clamped one too early (`> 1` for `> 0`)
move_cursor_clamped_at_one(cc, direction, number_of_rows) ==
    CASE direction = "Up" -> [cc EXCEPT !.y = IF cc.y > 1 THEN cc.y - 1 ELSE cc.y]
      [] direction = "Down" ->
            IF cc.y < number_of_rows
            THEN [cc EXCEPT !.y = wrapping_add(cc.y, 1)]
            ELSE cc
      [] direction = "Left" -> [cc EXCEPT !.x = IF cc.x > 1 THEN cc.x - 1 ELSE cc.x]
      [] direction = "Right" -> [cc EXCEPT !.x = wrapping_add(cc.x, 1)]

\* move_cursor with Down guarded by `<=` for `<`
move_cursor_down_off_by_one(cc, direction, number_of_rows) ==
    CASE direction = "Up" -> [cc EXCEPT !.y = saturating_sub(cc.y, 1)]
      [] direction = "Down" ->
            IF cc.y <= number_of_rows
            THEN [cc EXCEPT !.y = wrapping_add(cc.y, 1)]
            ELSE cc
      [] direction = "Left" -> [cc EXCEPT !.x = saturating_sub(cc.x, 1)]
      [] direction = "Right" -> [cc EXCEPT !.x = wrapping_add(cc.x, 1)]

CursorController_move_cursor(cc, direction, number_of_rows) ==
    CASE direction = "Up" -> [cc EXCEPT !.y = saturating_sub(cc.y, 1)]
      [] direction = "Down" ->
            IF cc.y < number_of_rows
            THEN [cc EXCEPT !.y = wrapping_add(cc.y, 1)]
            ELSE cc
      [] direction = "Left" -> [cc EXCEPT !.x = saturating_sub(cc.x, 1)]
      [] direction = "Right" -> [cc EXCEPT !.x = wrapping_add(cc.x, 1)]

move_cursor_overflows(cc, direction, number_of_rows) ==
    \/ direction = "Down" /\ cc.y < number_of_rows /\ cc.y + 1 >= UsizeMod
    \/ direction = "Right" /\ cc.x + 1 >= UsizeMod

\* scroll moving the viewport up one line per frame instead of to the cursor
scroll_axis_one_line_up(p, p_max, off) ==
    LET o1 == IF p < off THEN off - 1 ELSE off
    IN  IF p >= wrapping_add(wrapping_add(o1, p_max), 1)
        THEN wrapping_sub(p, p_max)
        ELSE o1

\* one axis of scroll: the new offset for position p, bound p_max, offset off
scroll_axis(p, p_max, off) ==
    LET o1 == min(off, p)
    IN  IF p >= wrapping_add(wrapping_add(o1, p_max), 1)
        THEN wrapping_sub(p, p_max)
        ELSE o1

scroll_axis_overflows(p, p_max, off) ==
    LET o1 == min(off, p)
    IN  \/ o1 + p_max + 1 >= UsizeMod
        \/ p >= o1 + p_max + 1 /\ p < p_max

CursorController_scroll(cc) ==
    [cc EXCEPT !.row_offset = scroll_axis(cc.y, cc.y_max, cc.row_offset),
               !.column_offset = scroll_axis(cc.x, cc.x_max, cc.column_offset)]

scroll_overflows(cc) ==
    \/ scroll_axis_overflows(cc.y, cc.y_max, cc.row_offset)
    \/ scroll_axis_overflows(cc.x, cc.x_max, cc.column_offset)

----------------------------------------------------------------------------
(* Text: a str is the sequence of its UTF-8 bytes, each written as a string. *)

\* const VERSION
VERSION == <<"1", ".", "0", ".", "0">>

\* format!("Pound editor -- Version {}", VERSION)
welcome ==
    <<"P", "o", "u", "n", "d", " ", "e", "d", "i", "t", "o", "r", " ", "-", "-",
      " ", "V", "e", "r", "s", "i", "o", "n", " ">> \o VERSION

\* the bytes 10xxxxxx, which continue a multi-byte character
ContinuationBytes == {"A9"}

\* str::is_char_boundary, index counted from 0
is_char_boundary(s, index) ==
    \/ index = 0
    \/ index = Len(s)
    \/ index < Len(s) /\ s[index + 1] \notin ContinuationBytes

\* whether &s[from..to] panics: out of range, or not on a character boundary
str_slice_panics(s, from, to) ==
    \/ from > to
    \/ to > Len(s)
    \/ ~is_char_boundary(s, from)
    \/ ~is_char_boundary(s, to)

\* &s[from..to]
str_slice(s, from, to) == SubSeq(s, from + 1, to)

RECURSIVE concat(_)
concat(ss) == IF ss = <<>> THEN <<>> ELSE Head(ss) \o concat(Tail(ss))

RECURSIVE repeat(_, _)
repeat(c, n) == IF n = 0 THEN <<>> ELSE <<c>> \o repeat(c, n - 1)

----------------------------------------------------------------------------
(* textwrap::wrap, the external crate draw_rows calls when the banner is    *)
(* wider than the screen: words are split at spaces, a word wider than the  *)
(* line is broken into pieces, lines are filled first-fit, and the          *)
(* whitespace at the end of a line is dropped.                              *)

RECURSIVE split_words(_, _)
split_words(text, cur) ==
    IF text = <<>>
    THEN IF cur = <<>> THEN <<>> ELSE <<[text |-> cur, ws |-> 0]>>
    ELSE IF Head(text) = " "
         THEN <<[text |-> cur, ws |-> 1]>> \o split_words(Tail(text), <<>>)
         ELSE split_words(Tail(text), Append(cur, Head(text)))

RECURSIVE break_apart(_, _)
break_apart(word, n) ==
    IF Len(word.text) <= n
    THEN <<word>>
    ELSE <<[text |-> SubSeq(word.text, 1, n), ws |-> 0]>>
         \o break_apart([word EXCEPT !.text = SubSeq(@, n + 1, Len(@))], n)

RECURSIVE break_words(_, _)
break_words(words, width) ==
    IF words = <<>>
    THEN <<>>
    ELSE (IF Len(Head(words).text) > width
          THEN break_apart(Head(words), IF width = 0 THEN 1 ELSE width)
          ELSE <<Head(words)>>)
         \o break_words(Tail(words), width)

RECURSIVE line_text(_)
line_text(line) ==
    IF line = <<>>
    THEN <<>>
    ELSE Head(line).text
         \o (IF Len(line) > 1 /\ Head(line).ws = 1 THEN <<" ">> ELSE <<>>)
         \o line_text(Tail(line))

RECURSIVE wrap_first_fit(_, _, _, _)
wrap_first_fit(frags, line, line_width, width) ==
    IF frags = <<>>
    THEN IF line = <<>> THEN <<>> ELSE <<line_text(line)>>
    ELSE IF line # <<>> /\ line_width + Len(Head(frags).text) > width
         THEN <<line_text(line)>> \o wrap_first_fit(frags, <<>>, 0, width)
         ELSE wrap_first_fit(Tail(frags), Append(line, Head(frags)),
                             line_width + Len(Head(frags).text) + Head(frags).ws,
                             width)

wrap(text, width) ==
    wrap_first_fit(break_words(split_words(text, <<>>), width), <<>>, 0, width)

----------------------------------------------------------------------------
(* EditorContents: the frame is a sequence of items, a byte of text or a    *)
(* terminal command queued with queue!.                                     *)

Ch(c) == [kind |-> "Char", ch |-> c, col |-> 0, row |-> 0]

Command(k) == [kind |-> k, ch |-> "", col |-> 0, row |-> 0]

MoveTo(c, r) == [kind |-> "MoveTo", ch |-> "", col |-> c, row |-> r]

\* EditorContents::push_str
push_str(s) == [i \in 1..Len(s) |-> Ch(s[i])]

----------------------------------------------------------------------------
(* Output::draw_rows *)

\* the banner branch without `padding -= 1` after the '~'
draw_welcome_padding_kept(screen_colums) ==
    IF Len(welcome) > screen_colums
    THEN push_str(concat(wrap(welcome, screen_colums)))
    ELSE LET padding == (screen_colums - Len(welcome)) \div 2
         IN  IF padding # 0
             THEN <<Ch("~")>> \o push_str(repeat(" ", padding)) \o push_str(welcome)
             ELSE push_str(welcome)

\* the banner branch, lines 182-196
draw_welcome(screen_colums) ==
    IF Len(welcome) > screen_colums
    THEN push_str(concat(wrap(welcome, screen_colums)))
    ELSE LET padding == (screen_colums - Len(welcome)) \div 2
         IN  IF padding # 0
             THEN <<Ch("~")>> \o push_str(repeat(" ", padding - 1)) \o push_str(welcome)
             ELSE push_str(welcome)

\* lines 206-207: the slice <<start, len>> taken from a row
row_slice_bounds(row, column_offset, screen_colums) ==
    LET len == min(saturating_sub(Len(row), column_offset), screen_colums)
        start == IF len = 0 THEN 0 ELSE column_offset
    IN  <<start, len>>

\* lines 201-208: a buffer row's visible part
draw_file_row(row, column_offset, screen_colums) ==
    LET b == row_slice_bounds(row, column_offset, screen_colums)
    IN  push_str(str_slice(row, b[1], b[1] + b[2]))

draw_file_row_panics(row, column_offset, screen_colums) ==
    LET b == row_slice_bounds(row, column_offset, screen_colums)
    IN  str_slice_panics(row, b[1], b[1] + b[2])

\* EditorRows::get_row
get_row(rows, at) == rows[at + 1]

\* &self.row_contents[at] is indexed out of range
get_row_panics(rows, at) == at >= Len(rows)

\* line 180 with `>` for `>=`
past_last_row_off_by_one(file_row, rows) == file_row > Len(rows)

\* line 180: the frame row lies past the last buffer row
past_last_row(file_row, rows) == file_row >= Len(rows)

\* the text of frame row i, lines 179-209
draw_row_text(i, cc, rows, ws) ==
    LET file_row == wrapping_add(i, cc.row_offset)
    IN  IF past_last_row(file_row, rows)
        THEN IF Len(rows) = 0 /\ i = ws[2] \div 3
             THEN draw_welcome(ws[1])
             ELSE <<Ch("~")>>
        ELSE draw_file_row(get_row(rows, file_row), cc.column_offset, ws[1])

\* the indices draw_rows passes to get_row, line 203
get_row_calls(cc, rows, ws) ==
    {wrapping_add(i, cc.row_offset) :
        i \in {j \in 0..(ws[2] - 1) :
                  ~past_last_row(wrapping_add(j, cc.row_offset), rows)}}

\* one pass of the loop, lines 178-219
draw_row(i, cc, rows, ws) ==
    draw_row_text(i, cc, rows, ws)
    \o <<Command("ClearUntilNewLine")>>
    \o (IF i < ws[2] - 1 THEN push_str(<<"\r", "\n">>) ELSE <<>>)

RECURSIVE draw_rows_from(_, _, _, _)
draw_rows_from(i, cc, rows, ws) ==
    IF i >= ws[2]
    THEN <<>>
    ELSE draw_row(i, cc, rows, ws) \o draw_rows_from(i + 1, cc, rows, ws)

draw_rows(cc, rows, ws) == draw_rows_from(0, cc, rows, ws)

\* get_row is indexed past the end, or the row's slice panics
draw_row_panics(i, cc, rows, ws) ==
    LET file_row == wrapping_add(i, cc.row_offset)
    IN  /\ ~past_last_row(file_row, rows)
        /\ \/ get_row_panics(rows, file_row)
           \/ draw_file_row_panics(get_row(rows, file_row), cc.column_offset,
                                   ws[1])

draw_rows_panics(cc, rows, ws) ==
    \E i \in 0..(ws[2] - 1) : draw_row_panics(i, cc, rows, ws)

draw_rows_overflows(cc, rows, ws) ==
    \E i \in 0..(ws[2] - 1) : i + cc.row_offset >= UsizeMod

----------------------------------------------------------------------------
(* Inputs: the terminal, the file named on the command line, the events. *)

\* what terminal::size() answers at startup: small sizes, zero included, and
\* sizes that hold the banner
TermSizes ==
    ((0..MaxDim) \X (0..MaxDim))
    \cup {<<80, 24>>, <<29, 1>>, <<30, 3>>, <<31, 5>>}

\* the rows EditorRows::new can load: no argument or an empty file, an ASCII
\* file, and a file whose second row starts with a two-byte character
Files ==
    { <<>>,
      << <<"a", "b", "c">> >>,
      << <<"a", "b">>, <<"C3", "A9", "b">> >> }

KeyCodes == {"Up", "Down", "Left", "Right", "Char_q", "Char_a"}

Directions == {"Up", "Down", "Left", "Right"}

KeyModifiers == {"NONE", "CONTROL", "CONTROL_SHIFT"}

Key(code, modifiers) ==
    [type |-> "Key", code |-> code, modifiers |-> modifiers, x |-> 0, y |-> 0]

Resize(x, y) ==
    [type |-> "Resize", code |-> "", modifiers |-> "", x |-> x, y |-> y]

\* Event::Mouse and the other kinds process_event ignores
Mouse == [type |-> "Mouse", code |-> "", modifiers |-> "", x |-> 0, y |-> 0]

NoEvent == [type |-> "None", code |-> "", modifiers |-> "", x |-> 0, y |-> 0]

Events ==
    {Key(c, m) : c \in KeyCodes, m \in KeyModifiers}
    \cup {Resize(w, h) : w \in 0..MaxDim, h \in 0..MaxDim}
    \cup {Mouse}

----------------------------------------------------------------------------
(* Output and Editor: the event handlers, as functions of the state they    *)
(* read. Each returns the new cursor_controller and win_size and the bool   *)
(* the handler returns (true: keep running).                                *)

\* Output::move_cursor
Output_move_cursor(cc, direction, rows) ==
    CursorController_move_cursor(cc, direction, Len(rows))

\* process_resize that also resets the scroll offsets
process_resize_resets_offsets(cc, x, y) ==
    LET x_max == wrapping_sub(x, 1)
        y_max == wrapping_sub(y, 1)
    IN  [cc |-> [cc EXCEPT !.x_max = x_max, !.y_max = y_max,
                           !.x = min(cc.x, x_max), !.y = min(cc.y, y_max),
                           !.row_offset = 0, !.column_offset = 0],
         win_size |-> <<x, y>>]

\* Output::process_resize
Output_process_resize(cc, x, y) ==
    LET x_max == wrapping_sub(x, 1)
        y_max == wrapping_sub(y, 1)
    IN  [cc |-> [cc EXCEPT !.x_max = x_max, !.y_max = y_max,
                           !.x = min(cc.x, x_max), !.y = min(cc.y, y_max)],
         win_size |-> <<x, y>>]

\* x - 1 or y - 1 overflows
process_resize_overflows(x, y) == x = 0 \/ y = 0

\* process_keypress with the quit arm returning Ok(true)
process_keypress_quit_continues(cc, ws, rows, key_event) ==
    IF key_event.code = "Char_q" /\ key_event.modifiers = "CONTROL"
    THEN [cc |-> cc, win_size |-> ws, result |-> TRUE]
    ELSE IF key_event.code \in Directions /\ key_event.modifiers = "NONE"
         THEN [cc |-> Output_move_cursor(cc, key_event.code, rows),
               win_size |-> ws, result |-> TRUE]
         ELSE [cc |-> cc, win_size |-> ws, result |-> TRUE]

\* process_keypress with the arrow arm matching on the key code alone
process_keypress_any_modifiers(cc, ws, rows, key_event) ==
    IF key_event.code = "Char_q" /\ key_event.modifiers = "CONTROL"
    THEN [cc |-> cc, win_size |-> ws, result |-> FALSE]
    ELSE IF key_event.code \in Directions
         THEN [cc |-> Output_move_cursor(cc, key_event.code, rows),
               win_size |-> ws, result |-> TRUE]
         ELSE [cc |-> cc, win_size |-> ws, result |-> TRUE]

\* Editor::process_keypress
process_keypress(cc, ws, rows, key_event) ==
    IF key_event.code = "Char_q" /\ key_event.modifiers = "CONTROL"
    THEN [cc |-> cc, win_size |-> ws, result |-> FALSE]
    ELSE IF key_event.code \in Directions /\ key_event.modifiers = "NONE"
         THEN [cc |-> Output_move_cursor(cc, key_event.code, rows),
               win_size |-> ws, result |-> TRUE]
         ELSE [cc |-> cc, win_size |-> ws, result |-> TRUE]

\* Editor::process_event, once read_event has returned ev
process_event(cc, ws, rows, ev) ==
    CASE ev.type = "Resize" ->
            [cc |-> Output_process_resize(cc, ev.x, ev.y).cc,
             win_size |-> Output_process_resize(cc, ev.x, ev.y).win_size,
             result |-> TRUE]
      [] ev.type = "Key" -> process_keypress(cc, ws, rows, ev)
      [] OTHER -> [cc |-> cc, win_size |-> ws, result |-> TRUE]

\* an arithmetic overflow while ev is handled
process_event_overflows(cc, rows, ev) ==
    \/ ev.type = "Resize" /\ process_resize_overflows(ev.x, ev.y)
    \/ /\ ev.type = "Key"
       /\ ev.code \in Directions
       /\ ev.modifiers = "NONE"
       /\ move_cursor_overflows(cc, ev.code, Len(rows))

\* lines 231-237: where the cursor is put on the screen
cursor_position(cc) ==
    MoveTo(wrapping_sub(cc.x, cc.column_offset) % U16Mod,
           wrapping_sub(cc.y, cc.row_offset) % U16Mod)

cursor_position_overflows(cc) ==
    cc.x < cc.column_offset \/ cc.y < cc.row_offset

\* what refresh_screen queues between scroll and flush, lines 229-237
compose_frame(cc, rows, ws) ==
    <<Command("Hide"), MoveTo(0, 0)>>
    \o draw_rows(cc, rows, ws)
    \o <<cursor_position(cc), Command("Show")>>

----------------------------------------------------------------------------
(* The state machine of main. *)

Init ==
    /\ build \in {"debug", "release"}
    /\ pc = "start"
    /\ raw_mode = FALSE
    /\ raw_log = <<>>
    /\ term_log = <<>>
    /\ clean_up = "none"
    /\ win_size = <<0, 0>>
    /\ cursor_controller =
           [x |-> 0, y |-> 0, x_max |-> 0, y_max |-> 0,
            row_offset |-> 0, column_offset |-> 0]
    /\ row_contents = <<>>
    /\ content = <<>>
    /\ event = NoEvent
    /\ signal = "None"

\* a panic: the process unwinds and ends (no CleanUp value is alive then)
Panic ==
    /\ pc' = "panic"
    /\ UNCHANGED <<build, raw_mode, raw_log, term_log,
                   clean_up, win_size,
                   cursor_controller, row_contents, content, event, signal>>

\* main returns Err
ReturnErr ==
    /\ pc' = "err"
    /\ UNCHANGED <<build, raw_mode, raw_log, term_log,
                   clean_up, win_size,
                   cursor_controller, row_contents, event, signal>>

\* line 309, `let _ = CleanUp;`: the pattern _ binds nothing, so the value is
\* dropped at the end of the statement and CleanUp::drop runs here
LetCleanUp ==
    /\ pc = "start"
    /\ clean_up' = "dropped"
    /\ \/ /\ raw_mode' = FALSE
          /\ raw_log' = Append(raw_log, "disable")
          /\ term_log' = Append(term_log, "disable_raw_mode")
          /\ pc' = "enable"
       \/ \* disable_raw_mode fails: expect panics
          /\ pc' = "panic"
          /\ UNCHANGED <<raw_mode, raw_log, term_log>>
    /\ UNCHANGED <<build, win_size, cursor_controller, row_contents, content,
                   event, signal>>

\* line 310, terminal::enable_raw_mode()?
EnableRawMode ==
    /\ pc = "enable"
    /\ \/ /\ raw_mode' = TRUE
          /\ raw_log' = Append(raw_log, "enable")
          /\ term_log' = Append(term_log, "enable_raw_mode")
          /\ pc' = "new"
          /\ UNCHANGED <<build, clean_up, win_size, cursor_controller,
                         row_contents, content, event, signal>>
       \/ ReturnErr /\ UNCHANGED content

\* line 311, Editor::new -> Output::new
EditorNew ==
    /\ pc = "new"
    /\ \/ \E ts \in TermSizes, file \in Files :
            IF build = "debug" /\ CursorController_new_overflows(ts)
            THEN Panic
            ELSE /\ win_size' = ts
                 /\ cursor_controller' = CursorController_new(ts)
                 /\ row_contents' = file
                 /\ content' = <<>>
                 /\ pc' = "scroll"
                 /\ UNCHANGED <<build, raw_mode, raw_log, term_log,
                   clean_up, event, signal>>
       \/ \* terminal::size() fails (unwrap) or the file cannot be read (expect)
          Panic

\* line 228, cursor_controller.scroll()
Scroll ==
    /\ pc = "scroll"
    /\ IF build = "debug" /\ scroll_overflows(cursor_controller)
       THEN Panic
       ELSE /\ cursor_controller' = CursorController_scroll(cursor_controller)
            /\ pc' = "draw"
            /\ UNCHANGED <<build, raw_mode, raw_log, term_log,
                   clean_up, win_size,
                           row_contents, content, event, signal>>

\* lines 229-237: the frame is composed in editor_contents
Draw ==
    /\ pc = "draw"
    /\ IF \/ draw_rows_panics(cursor_controller, row_contents, win_size)
          \/ /\ build = "debug"
             /\ \/ draw_rows_overflows(cursor_controller, row_contents, win_size)
                \/ cursor_position_overflows(cursor_controller)
       THEN Panic
       ELSE /\ content' = content
                   \o compose_frame(cursor_controller, row_contents, win_size)
            /\ pc' = "flush"
            /\ UNCHANGED <<build, raw_mode, raw_log, term_log,
                   clean_up, win_size,
                           cursor_controller, row_contents, event, signal>>

\* flush without self.content.clear()
Flush_without_clear ==
    /\ pc = "flush"
    /\ \/ /\ pc' = "read"
          /\ UNCHANGED <<build, raw_mode, raw_log, term_log, clean_up, win_size,
                         cursor_controller, row_contents, content, event, signal>>
       \/ ReturnErr /\ UNCHANGED content

\* line 238, editor_contents.flush(): write!, stdout().flush()?, clear
Flush ==
    /\ pc = "flush"
    /\ \/ /\ content' = <<>>
          /\ pc' = "read"
          /\ UNCHANGED <<build, raw_mode, raw_log, term_log,
                   clean_up, win_size,
                         cursor_controller, row_contents, event, signal>>
       \/ \* write! failed, stdout().flush() did not: cleared, Err returned
          ReturnErr /\ content' = <<>>
       \/ \* stdout().flush() failed: `?` returns before the clear
          ReturnErr /\ UNCHANGED content

\* line 290, reader.read_event()?
ReadEvent ==
    /\ pc = "read"
    /\ \/ \E ev \in Events :
            /\ ev = Key("Right", "NONE") => cursor_controller.x < MaxX
            /\ event' = ev
            /\ pc' = "dispatch"
            /\ UNCHANGED <<build, raw_mode, raw_log, term_log,
                   clean_up, win_size,
                           cursor_controller, row_contents, content, signal>>
       \/ ReturnErr /\ UNCHANGED content

\* lines 290-299 and the loop condition of line 313
Dispatch ==
    /\ pc = "dispatch"
    /\ IF build = "debug"
          /\ process_event_overflows(cursor_controller, row_contents, event)
       THEN Panic
       ELSE LET r == process_event(cursor_controller, win_size, row_contents, event)
            IN  /\ cursor_controller' = r.cc
                /\ win_size' = r.win_size
                /\ signal' = IF r.result THEN "Continue" ELSE "Quit"
                /\ pc' = IF r.result THEN "scroll" ELSE "clear"
                /\ UNCHANGED <<build, raw_mode, raw_log, term_log,
                   clean_up, row_contents,
                               content, event>>

\* line 314, Output::clear_screen()?, then line 316
ClearScreen ==
    /\ pc = "clear"
    /\ \/ /\ pc' = "done"
          /\ term_log' = Append(term_log, "clear_screen")
          /\ UNCHANGED <<build, raw_mode, raw_log, clean_up, win_size,
                         cursor_controller, row_contents, content, event, signal>>
       \/ \* Clear(All) or MoveTo(0, 0) fails: `?` returns Err
          ReturnErr /\ UNCHANGED content

Next ==
    \/ LetCleanUp
    \/ EnableRawMode
    \/ EditorNew
    \/ Scroll
    \/ Draw
    \/ Flush
    \/ ReadEvent
    \/ Dispatch
    \/ ClearScreen

Spec == Init /\ [][Next]_vars

----------------------------------------------------------------------------
(* The properties checked. *)

x == cursor_controller.x

y == cursor_controller.y

x_max == cursor_controller.x_max

y_max == cursor_controller.y_max

row_offset == cursor_controller.row_offset

column_offset == cursor_controller.column_offset

number_of_rows == Len(row_contents)

Ended == pc \in {"done", "err", "panic"}

\* the event was handled by the step that led here
Handled(ev) == event = ev /\ pc \in {"scroll", "clear"}

\* C1: immediately after each scroll recomputation (the first step of every
\* refresh_screen), row_offset <= y <= row_offset + y_max and
\* column_offset <= x <= column_offset + x_max, for every sequence of
\* directional key presses and resizes.
C1_ScrollBounds ==
    pc = "draw" =>
        /\ row_offset <= y
        /\ y <= row_offset + y_max
        /\ column_offset <= x
        /\ x <= column_offset + x_max

\* C2: whenever the process has ended (normal quit, an I/O error returned by
\* main, a failure while the editor is constructed), raw mode is off, and the
\* last raw-mode toggle is the release, after the enable.
C2_RawModeReleased ==
    Ended =>
        /\ raw_mode = FALSE
        /\ raw_log # <<>> => raw_log[Len(raw_log)] = "disable"

\* C3: dispatching the quit chord ('q' with exactly the Control modifier)
\* returns Quit and leaves x, y, x_max, y_max, row_offset, column_offset and
\* win_size unchanged, from every reachable state.
C3_QuitChord ==
    [][pc = "dispatch" /\ event = Key("Char_q", "CONTROL") =>
          /\ signal' = "Quit"
          /\ pc' = "clear"
          /\ cursor_controller' = cursor_controller
          /\ win_size' = win_size]_vars

\* the quit chord was dispatched in a state with the cursor moved and the
\* viewport scrolled
C3_Witness ==
    /\ Handled(Key("Char_q", "CONTROL"))
    /\ signal = "Quit"
    /\ x > 0
    /\ row_offset > 0

\* C4: the loop leaves Running for Terminated exactly when dispatch returns
\* Quit: after a resize, a directional key, an unmapped key or another event
\* the next step is another iteration (the scroll of the next frame); after
\* the quit chord it is the final clear_screen, which nothing else leads to
\* and no frame follows.
C4_LoopEndsExactlyOnQuit ==
    [][/\ pc = "dispatch" =>
              pc' = IF event = Key("Char_q", "CONTROL") THEN "clear" ELSE "scroll"
       /\ pc' = "clear" =>
              pc = "dispatch" /\ event = Key("Char_q", "CONTROL")
       /\ pc = "clear" => pc' \in {"done", "err"}]_vars

RECURSIVE iterate_move(_, _, _, _)
iterate_move(cc, direction, rows, n) ==
    IF n = 0
    THEN cc
    ELSE iterate_move(Output_move_cursor(cc, direction, rows), direction, rows, n - 1)

\* the cursor after y Up presses and x Left presses from the current state
AfterUpLeft ==
    iterate_move(iterate_move(cursor_controller, "Up", row_contents, y),
                 "Left", row_contents, x)

C5_Converges ==
    /\ AfterUpLeft.x = 0
    /\ AfterUpLeft.y = 0
    /\ \A d \in {"Up", "Left"} :
          /\ Output_move_cursor(AfterUpLeft, d, row_contents).x = 0
          /\ Output_move_cursor(AfterUpLeft, d, row_contents).y = 0

C5_Step ==
    /\ pc = "dispatch" /\ event = Key("Up", "NONE") =>
          /\ y' = (IF y > 0 THEN y - 1 ELSE 0)
          /\ x' = x
    /\ pc = "dispatch" /\ event = Key("Left", "NONE") =>
          /\ x' = (IF x > 0 THEN x - 1 ELSE 0)
          /\ y' = y

\* C5: an Up (Left) press decreases y (x) by one while it is positive and
\* leaves it at 0 otherwise, never negative; from every reachable state, y Up
\* presses and x Left presses lead to (0, 0), where further Up and Left
\* presses stay.
C5_Clamping == []C5_Converges /\ [][C5_Step]_vars

\* an Up press was dispatched and the cursor is on row 0 of a buffer with rows
C5_Witness ==
    /\ Handled(Key("Up", "NONE"))
    /\ y = 0
    /\ x > 0
    /\ number_of_rows > 0

\* C6: for every prior state and every resize event, on_resize completes
\* without an exception and leaves x_max = new_width - 1,
\* y_max = new_height - 1, x = min(old x, x_max), y = min(old y, y_max).
C6_ResizeReclamp ==
    [][pc = "dispatch" /\ event.type = "Resize" =>
          /\ pc' # "panic"
          /\ x_max' = event.x - 1
          /\ y_max' = event.y - 1
          /\ x' = min(x, event.x - 1)
          /\ y' = min(y, event.y - 1)]_vars

C7_DownStep ==
    pc = "dispatch" /\ event = Key("Down", "NONE") =>
        /\ y' = (IF y < number_of_rows THEN y + 1 ELSE y)
        /\ x' = x

\* C7: a Down press increases y by exactly 1 when y < number_of_rows and
\* leaves it unchanged otherwise, and y <= number_of_rows in every reachable
\* state, whatever the moves and resizes.
C7_DownBounded == [](y <= number_of_rows) /\ [][C7_DownStep]_vars

\* a Down press was dispatched and the cursor rests one row past the last row
C7_Witness ==
    /\ Handled(Key("Down", "NONE"))
    /\ number_of_rows > 0
    /\ y = number_of_rows

\* where the rows of a composed frame end: the ClearUntilNewLine items
RowEnds(items) == {i \in 1..Len(items) : items[i].kind = "ClearUntilNewLine"}

\* the k-th row end
RowEnd(items, k) ==
    IF k = 0
    THEN 0
    ELSE CHOOSE i \in RowEnds(items) :
             Cardinality({j \in RowEnds(items) : j < i}) = k - 1

IsRowText(item) == item.kind = "Char" /\ item.ch \notin {"\r", "\n"}

\* the text of the k-th row of a composed frame: the bytes up to its
\* ClearUntilNewLine, the row separator left out
FrameRow(items, k) ==
    LET part == SelectSeq(SubSeq(items, RowEnd(items, k - 1) + 1,
                                 RowEnd(items, k) - 1), IsRowText)
    IN  [i \in 1..Len(part) |-> part[i].ch]

FrameRows == [k \in 1..Cardinality(RowEnds(content)) |-> FrameRow(content, k)]

BannerText ==
    <<"P", "o", "u", "n", "d", " ", "e", "d", "i", "t", "o", "r", " ", "-", "-",
      " ", "V", "e", "r", "s", "i", "o", "n", " ", "1", ".", "0", ".", "0">>

CentredBanner(w) ==
    LET p == (w - Len(BannerText)) \div 2
    IN  IF p > 0
        THEN <<"~">> \o [i \in 1..(p - 1) |-> " "] \o BannerText
        ELSE BannerText

\* C8: a frame composed for an empty row store, width w at least the banner's
\* length and height h has h rows; row h/3 is the banner centred with padding
\* p = (w - len)/2, as '~', p - 1 spaces and the banner when p > 0 and the
\* banner alone when p = 0; every other row is "~".
C8_EmptyBufferBanner ==
    pc = "flush" /\ number_of_rows = 0 /\ win_size[1] >= Len(BannerText) =>
        /\ Len(FrameRows) = win_size[2]
        /\ \A i \in 0..(win_size[2] - 1) :
              FrameRows[i + 1] =
                  IF i = win_size[2] \div 3
                  THEN CentredBanner(win_size[1])
                  ELSE <<"~">>

\* the 80x24 frame of an empty buffer: row 8 is '~', 24 spaces, the banner
C8_Witness ==
    /\ pc = "flush"
    /\ number_of_rows = 0
    /\ win_size = <<80, 24>>
    /\ FrameRows[9] = <<"~">> \o [i \in 1..24 |-> " "] \o BannerText
    /\ FrameRows[8] = <<"~">>

\* row[c .. c + min(L - c, w)] when c < L, the empty string otherwise
ExpectedSlice(row, c, w) ==
    IF c < Len(row)
    THEN SubSeq(row, c + 1, c + min(Len(row) - c, w))
    ELSE <<>>

\* C9: for every buffer row a frame shows, with the column offset c and the
\* screen width w of the state, draw_rows emits row[c .. c + min(L - c, w)]
\* (nothing when c >= L), without a panic.
C9_RowSlice ==
    pc = "draw" =>
        \A i \in 0..(win_size[2] - 1) :
            i + row_offset < number_of_rows =>
                LET row == row_contents[i + row_offset + 1]
                IN  /\ ~draw_file_row_panics(row, column_offset, win_size[1])
                    /\ draw_file_row(row, column_offset, win_size[1])
                           = push_str(ExpectedSlice(row, column_offset, win_size[1]))

Mapped(ev) ==
    \/ ev = Key("Char_q", "CONTROL")
    \/ ev.type = "Key" /\ ev.code \in Directions /\ ev.modifiers = "NONE"
    \/ ev.type = "Resize"

\* C10: an event that is not the quit chord, not an unmodified arrow key and
\* not a resize leaves x, y, x_max, y_max, row_offset, column_offset and
\* win_size unchanged and returns Continue.
C10_OtherEvents ==
    [][pc = "dispatch" /\ ~Mapped(event) =>
          /\ cursor_controller' = cursor_controller
          /\ win_size' = win_size
          /\ signal' = "Continue"
          /\ pc' = "scroll"]_vars

\* Control+Down was dispatched where an unmodified Down would have moved
C10_Witness ==
    /\ Handled(Key("Down", "CONTROL"))
    /\ signal = "Continue"
    /\ y < number_of_rows

Last(log) == log[Len(log)]

\* C11: when the session ends through the quit chord, clear_screen is
\* performed and then normal terminal mode is restored: the raw-mode release
\* is the last terminal action of main and follows the final screen clear.
C11_ClearThenRelease ==
    pc = "done" =>
        /\ Len(term_log) >= 2
        /\ Last(term_log) = "disable_raw_mode"
        /\ term_log[Len(term_log) - 1] = "clear_screen"
        /\ raw_mode = FALSE

\* C12: y exceeds y_max only up to number_of_rows - 1: in every reachable
\* state y <= y_max or y <= number_of_rows - 1.
C12_RowBoundOriginal == y <= y_max \/ y <= number_of_rows - 1

\* C12 as amended: y exceeds y_max only up to number_of_rows (Down stops one
\* row past the last buffer row): y <= y_max or y <= number_of_rows.
C12_RowBound == y <= y_max \/ y <= number_of_rows

\* the cursor is below the viewport's height, one row past the last row
C12_Witness ==
    /\ Handled(Key("Down", "NONE"))
    /\ number_of_rows > 0
    /\ y > y_max
    /\ y = number_of_rows

\* the postcondition of scroll
ScrollPostcondition ==
    /\ row_offset <= y
    /\ y <= row_offset + y_max
    /\ column_offset <= x
    /\ x <= column_offset + x_max

C13_FrameState ==
    pc \in {"draw", "flush"} =>
        /\ ScrollPostcondition
        /\ x - column_offset >= 0
        /\ y - row_offset >= 0

C13_Order ==
    /\ pc = "scroll" => pc' \in {"draw", "panic"}
    /\ pc = "draw" =>
          /\ pc' \in {"flush", "panic"}
          /\ cursor_controller' = cursor_controller
          /\ win_size' = win_size
    /\ pc = "flush" => pc' \in {"read", "err"}
    /\ pc = "read" => pc' \in {"dispatch", "err"}
    /\ pc = "dispatch" => pc' \in {"scroll", "clear", "panic"}

\* C13: every iteration runs scroll, draw, flush, wait, dispatch in this
\* order, scroll once per frame and nothing between it and the drawing, so
\* every frame and its on-screen cursor (x - column_offset, y - row_offset)
\* are computed from offsets that satisfy the scroll postcondition, and
\* neither subtraction goes below 0.
C13_FramePipeline == []C13_FrameState /\ [][C13_Order]_vars

\* C14: every get_row call made while rendering uses an index strictly less
\* than number_of_rows, in every reachable state.
C14_GetRowInRange ==
    \A at \in get_row_calls(cursor_controller, row_contents, win_size) :
        ~get_row_panics(row_contents, at)

\* a scrolled frame that shows buffer rows and rows past the end
C14_Witness ==
    /\ pc = "draw"
    /\ row_offset > 0
    /\ get_row_calls(cursor_controller, row_contents, win_size) # {}
    /\ \E i \in 0..(win_size[2] - 1) :
          past_last_row(i + row_offset, row_contents)

C15_Buffer ==
    /\ pc \in {"scroll", "draw", "read", "dispatch", "clear", "done"} =>
          content = <<>>
    /\ pc = "flush" =>
          content = compose_frame(cursor_controller, row_contents, win_size)

C15_Step ==
    /\ pc = "flush" => pc' \in {"read", "err"}
    /\ pc' = "read" => pc = "flush" /\ content' = <<>>
    /\ pc' = "flush" => pc = "draw"
    /\ pc' = "dispatch" => pc = "read"

\* C15: the buffer is flushed once per iteration, after the frame is composed
\* and before the loop waits for input; after a successful flush it is empty,
\* so every frame is composed from an empty buffer and what a flush writes is
\* exactly the frame just composed.
C15_FlushOncePerFrame == []C15_Buffer /\ [][C15_Step]_vars

\* a later frame has been flushed and the loop waits with an empty buffer
C15_Witness ==
    /\ pc = "read"
    /\ content = <<>>
    /\ signal = "Continue"
    /\ y > 0

\* C16: a resize changes only win_size, x_max, y_max, x and y; row_offset and
\* column_offset change in no step but the scroll of a frame.
C16_OffsetsOnlyByScroll ==
    [][/\ row_offset' # row_offset \/ column_offset' # column_offset =>
              pc = "scroll" /\ pc' = "draw"
       /\ pc = "dispatch" /\ event.type = "Resize" =>
              /\ row_offset' = row_offset
              /\ column_offset' = column_offset
              /\ UNCHANGED <<row_contents, content, raw_mode, raw_log, term_log>>]_vars

\* a resize was dispatched and left the cursor above a row offset it did not
\* touch
C16_Witness ==
    /\ Handled(event)
    /\ event.type = "Resize"
    /\ win_size = <<event.x, event.y>>
    /\ row_offset > y
    /\ column_offset > 0

\* C17: a terminal size with width 0 or height 0 is rejected when the state
\* is initialised: Editor::new never yields a state made from a zero
\* dimension.
C17_ZeroSizeRejected ==
    [][pc = "new" /\ pc' = "scroll" =>
          win_size'[1] > 0 /\ win_size'[2] > 0]_vars

\* C18: scroll never changes x, y, x_max or y_max; it leaves an offset as it
\* is when the cursor is inside the viewport on that axis, and otherwise
\* moves it to put the cursor on the nearest edge.
C18_ScrollMinimal ==
    [][pc = "scroll" /\ pc' = "draw" =>
          /\ x' = x /\ y' = y /\ x_max' = x_max /\ y_max' = y_max
          /\ row_offset' =
                (IF y < row_offset THEN y
                 ELSE IF y > row_offset + y_max THEN y - y_max
                 ELSE row_offset)
          /\ column_offset' =
                (IF x < column_offset THEN x
                 ELSE IF x > column_offset + x_max THEN x - x_max
                 ELSE column_offset)]_vars

\* C19: scroll applied twice gives what scroll applied once gives, in every
\* reachable state; once a frame has scrolled, scrolling again changes nothing.
C19_ScrollIdempotent ==
    /\ CursorController_scroll(CursorController_scroll(cursor_controller))
           = CursorController_scroll(cursor_controller)
    /\ pc \in {"draw", "flush", "read"} =>
           CursorController_scroll(cursor_controller) = cursor_controller

\* scroll is about to move a viewport whose top is two rows below the cursor
C19_Witness ==
    /\ pc = "scroll"
    /\ row_offset >= y + 2
    /\ CursorController_scroll(cursor_controller).row_offset = y

\* C20: with an empty row store, y = 0 and row_offset = 0 in every reachable
\* state, and the on-screen cursor row is 0.
C20_EmptyStoreStaysAtTop ==
    number_of_rows = 0 =>
        /\ y = 0
        /\ row_offset = 0
        /\ cursor_position(cursor_controller).row = 0

====
